---- MODULE Spec2Model ----
(***************************************************************************)
(* Model of quafel's kedro hooks (src/quafel/hooks.py) and of the          *)
(* visualization node (src/quafel/pipelines/visualization/nodes.py).       *)
(*                                                                         *)
(* Strings (paths, catalog names, report names, figure keys) are sequences *)
(* of one-character strings, so that f-string formatting, str.replace and  *)
(* Path.stem are computed character by character.                          *)
(* Durations are floats in the code; the model writes them in tenths       *)
(* (5 stands for 0.5, 9 for 0.9).                                          *)
(***************************************************************************)
EXTENDS Integers, Sequences, FiniteSets, TLC

VARIABLES
    matrix,              \* content of data_generation.evaluation_matrix
    files,               \* regular files on disk (paths)
    dirs,                \* directories on disk (paths)
    catalog,             \* DataCatalog: name -> data set
    pc,                  \* position inside after_catalog_created
    todo,                \* partitions of the glob not yet looped over
    partition,           \* loop variable of hooks.py:63
    execution_duration,  \* local of hooks.py:80
    execution_result,    \* local of hooks.py:94
    names,               \* local list of hooks.py:112
    version,             \* local of hooks.py:133
    i,                   \* index of the loop of hooks.py:136 into names
    runs,                \* number of catalogs kedro has created so far
    completed,           \* history: runs of the hook that returned normally
    snapshot,            \* history: catalog names, files, dirs at last return
    crashed_at,          \* history: where the last interrupted run stopped
    pipeline_name,       \* run_params["pipeline_name"]
    cpc,                 \* position inside before_pipeline_run
    pattern,             \* which of the four glob scans the cleanup is at
    tempFiles,           \* local of hooks.py:31/35/39/43, not yet removed
    meddled,             \* files another process removed during the cleanup
    table,               \* execution_durations_combined (rows of the frame)
    figures,             \* local dict of nodes.py:13
    vpc                  \* position inside shots_depths_viz

hookVars  == <<catalog, pc, todo, partition, execution_duration,
               execution_result, names, version, i, runs,
               completed, snapshot, crashed_at>>
fsVars    == <<files, dirs>>
cleanVars == <<pipeline_name, cpc, pattern, tempFiles, meddled>>
vizVars   == <<table, figures, vpc>>
vars == <<matrix, files, dirs, catalog, pc, todo, partition,
          execution_duration, execution_result, names, version, i, runs,
          completed, snapshot, crashed_at,
          pipeline_name, cpc, pattern, tempFiles, meddled, table, figures, vpc>>

(***************************************************************************)
(* Bounds of the model.                                                    *)
(***************************************************************************)
MaxAxisLen == 2      \* longest axis of a matrix given to the name generation
RegAxisLen == 2      \* longest axis of a matrix given to a registration run
MaxStemParts == 2    \* pieces a partition's file stem is put together from
MaxPartitions == 2   \* partitions on disk during a registration run
MaxRuns == 2         \* catalogs created (runs of the hook) in one behaviour
MaxRows == 4         \* rows of the combined table
MaxMeddle == 1       \* files another process removes during one cleanup

(***************************************************************************)
(* String literals of the source.                                          *)
(***************************************************************************)
S_framework_ == <<"f","r","a","m","e","w","o","r","k","_">>
S__qubits_ == <<"_","q","u","b","i","t","s","_">>
S__depth_ == <<"_","d","e","p","t","h","_">>
S_shots_ == <<"s","h","o","t","s","_">>
S_qubits_ == <<"q","u","b","i","t","s","_">>
INTERMEDIATE == <<"0","2","_","i","n","t","e","r","m","e","d","i","a","t","e">>
EXEC_DURATIONS == <<"0","5","_","e","x","e","c","u","t","i","o","n","_","d","u","r","a","t","i","o","n","s">>
EXEC_RESULT == <<"0","4","_","e","x","e","c","u","t","i","o","n","_","r","e","s","u","l","t">>
INTERMEDIATE_DIR == <<"d","a","t","a","/","0","2","_","i","n","t","e","r","m","e","d","i","a","t","e","/">>
RESULT_DIR == <<"d","a","t","a","/","0","4","_","e","x","e","c","u","t","i","o","n","_","r","e","s","u","l","t","/">>
DURATIONS_DIR == <<"d","a","t","a","/","0","5","_","e","x","e","c","u","t","i","o","n","_","d","u","r","a","t","i","o","n","s","/">>
REPORTING_DIR == <<"d","a","t","a","/","0","7","_","r","e","p","o","r","t","i","n","g","/">>
EXT_CSV == <<".","c","s","v">>
EXT_TMP == <<".","t","m","p">>
EXT_JSON == <<".","j","s","o","n">>
PARTITION_PREFIX == <<"d","a","t","a","_","g","e","n","e","r","a","t","i","o","n",".","e","v","a","l","u","a","t","i","o","n","_","p","a","r","t","i","t","i","o","n","_">>
DURATION_PREFIX == <<"d","a","t","a","_","s","c","i","e","n","c","e",".","e","x","e","c","u","t","i","o","n","_","d","u","r","a","t","i","o","n","_">>
RESULT_PREFIX == <<"d","a","t","a","_","s","c","i","e","n","c","e",".","e","x","e","c","u","t","i","o","n","_","r","e","s","u","l","t","_">>
EVALUATION_MATRIX == <<"d","a","t","a","_","g","e","n","e","r","a","t","i","o","n",".","e","v","a","l","u","a","t","i","o","n","_","m","a","t","r","i","x">>
DUMMY_VERSIONED == <<"d","u","m","m","y","_","v","e","r","s","i","o","n","e","d","_","d","a","t","a","s","e","t">>

(***************************************************************************)
(* Values the inputs are drawn from.                                       *)
(***************************************************************************)
S_qiskit == <<"q","i","s","k","i","t">>
S_cirq == <<"c","i","r","q">>
FrameworkVals == {S_qiskit, S_cirq}
QubitVals == {2, 4}
DepthVals == {10, 20}
ShotVals == {100, 200}

(***************************************************************************)
(* Helpers on sequences.                                                   *)
(***************************************************************************)
Range(s) == {s[k] : k \in 1..Len(s)}

SeqsUpTo(S, n) == UNION {[1..k -> S] : k \in 0..n}

HasDuplicate(s) == \E a, b \in 1..Len(s) : a # b /\ s[a] = s[b]

RECURSIVE Flatten(_)
\* concatenation of a sequence of sequences, in order
Flatten(ss) == IF ss = <<>> THEN <<>> ELSE Head(ss) \o Flatten(Tail(ss))

\* "0" .. "9"
Digit(n) == CASE n = 0 -> "0" [] n = 1 -> "1" [] n = 2 -> "2" [] n = 3 -> "3"
              [] n = 4 -> "4" [] n = 5 -> "5" [] n = 6 -> "6" [] n = 7 -> "7"
              [] n = 8 -> "8" [] n = 9 -> "9"

RECURSIVE Str(_)
\* str(n) of a natural number, as an f-string formats it
Str(n) == IF n < 10 THEN <<Digit(n)>> ELSE Str(n \div 10) \o <<Digit(n % 10)>>

\* s[a:] starts with pat
StartsWithAt(s, a, pat) ==
    /\ a + Len(pat) - 1 <= Len(s)
    /\ \A k \in 1..Len(pat) : s[a + k - 1] = pat[k]

RECURSIVE ReplaceFrom(_, _, _, _)
ReplaceFrom(s, a, old, new) ==
    IF a > Len(s) THEN <<>>
    ELSE IF StartsWithAt(s, a, old)
         THEN new \o ReplaceFrom(s, a + Len(old), old, new)
         ELSE <<s[a]>> \o ReplaceFrom(s, a + 1, old, new)

\* str.replace(old, new) for a non-empty old: every non-overlapping
\* occurrence, found left to right
Replace(s, old, new) == ReplaceFrom(s, 1, old, new)

\* the index of the last occurrence of character c in s, 0 if there is none
LastIndexOf(s, c) ==
    IF \E k \in 1..Len(s) : s[k] = c
    THEN CHOOSE k \in 1..Len(s) : s[k] = c /\ \A m \in (k+1)..Len(s) : s[m] # c
    ELSE 0

\* Path(p).name: the final component of the path
PathName(p) == SubSeq(p, LastIndexOf(p, "/") + 1, Len(p))

\* Path(p).stem: the final component without its last suffix; a leading or a
\* trailing dot starts no suffix
Stem(p) ==
    LET name == PathName(p)
        dot  == LastIndexOf(name, ".")
    IN  IF 1 < dot /\ dot < Len(name) THEN SubSeq(name, 1, dot - 1) ELSE name

(***************************************************************************)
(* hooks.py:112-129, the generation of the report names.                   *)
(***************************************************************************)
FrameworkQubitsName(f, q) == S_framework_ \o f \o S__qubits_ \o Str(q)
FrameworkDepthName(f, d) == S_framework_ \o f \o S__depth_ \o Str(d)
ShotsDepthName(s, d) == S_shots_ \o Str(s) \o S__depth_ \o Str(d)
QubitsDepthName(q, d) == S_qubits_ \o Str(q) \o S__depth_ \o Str(d)
ShotsQubitsName(s, q) == S_shots_ \o Str(s) \o S__qubits_ \o Str(q)

\* the names appended by one iteration of the outer framework loop
FrameworkNames(m, f) ==
    [k \in 1..Len(m.qubits) |-> FrameworkQubitsName(f, m.qubits[k])]
    \o [k \in 1..Len(m.depths) |-> FrameworkDepthName(f, m.depths[k])]

\* a plausible slip: the last pair of loops (hooks.py:127-129) left out
GenerateNamesShort(m) ==
    Flatten([a \in 1..Len(m.frameworks) |-> FrameworkNames(m, m.frameworks[a])])
    \o Flatten([a \in 1..Len(m.depths) |->
          [b \in 1..Len(m.shots) |-> ShotsDepthName(m.shots[b], m.depths[a])]])
    \o Flatten([a \in 1..Len(m.depths) |->
          [b \in 1..Len(m.qubits) |-> QubitsDepthName(m.qubits[b], m.depths[a])]])

GenerateNames(m) ==
    Flatten([a \in 1..Len(m.frameworks) |-> FrameworkNames(m, m.frameworks[a])])
    \o Flatten([a \in 1..Len(m.depths) |->
          [b \in 1..Len(m.shots) |-> ShotsDepthName(m.shots[b], m.depths[a])]])
    \o Flatten([a \in 1..Len(m.depths) |->
          [b \in 1..Len(m.qubits) |-> QubitsDepthName(m.qubits[b], m.depths[a])]])
    \o Flatten([a \in 1..Len(m.shots) |->
          [b \in 1..Len(m.qubits) |-> ShotsQubitsName(m.shots[a], m.qubits[b])]])

(***************************************************************************)
(* The file system: files maps the path of a regular file to its content   *)
(* ("" for an empty file), dirs is the set of directories.  The directory  *)
(* data/07_reporting/ itself is part of the project layout and exists.     *)
(***************************************************************************)
CSV_CONTENT == "rows"

\* glob.glob(dir + "*" + ext): the entries directly in dir whose name ends
\* with ext and does not start with a dot
GlobMatches(dir, ext, path) ==
    /\ Len(path) > Len(dir) + Len(ext)
    /\ StartsWithAt(path, 1, dir)
    /\ StartsWithAt(path, Len(path) - Len(ext) + 1, ext)
    /\ path[Len(dir) + 1] # "."
    /\ \A k \in (Len(dir) + 1)..Len(path) : path[k] # "/"

Glob(dir, ext) == {path \in DOMAIN files : GlobMatches(dir, ext, path)}

Without(f, path) == [q \in (DOMAIN f) \ {path} |-> f[q]]

(***************************************************************************)
(* The data catalog.                                                       *)
(***************************************************************************)
\* Python's None, where a version token can stand
None == <<>>

NoVersion == [load |-> None, save |-> None]

CSVDataSet(filepath) ==
    [type |-> "CSVDataSet", filepath |-> filepath, version |-> NoVersion]

\* a plausible slip: the data set built without the version
JSONDataSetUnversioned(filepath, v) ==
    [type |-> "JSONDataSet", filepath |-> filepath, version |-> NoVersion]

\* hooks.py:139
JSONDataSet(filepath, v) ==
    [type |-> "JSONDataSet", filepath |-> filepath, version |-> v]

\* the catalog kedro hands to after_catalog_created: the two entries of the
\* project configuration the hook reads, the versioned one carrying the
\* save version of the session
ConfiguredCatalog(save) ==
    (EVALUATION_MATRIX :> [type |-> "configured", filepath |-> <<>>,
                           version |-> NoVersion])
    @@ (DUMMY_VERSIONED :> [type |-> "configured", filepath |-> <<>>,
                            version |-> [load |-> None, save |-> save]])

\* a plausible slip: registering under an existing name replaces the entry
CatalogAddReplacing(cat, name, data_set) ==
    [ok |-> TRUE,
     cat |-> [n \in (DOMAIN cat) \cup {name} |->
                 IF n = name THEN data_set ELSE cat[n]]]

\* catalog.add(name, data_set), called without replace=True: a name that is
\* already registered raises DataSetAlreadyExistsError and leaves the catalog
CatalogAdd(cat, name, data_set) ==
    IF name \in DOMAIN cat
    THEN [ok |-> FALSE, cat |-> cat]
    ELSE [ok |-> TRUE, cat |-> cat @@ (name :> data_set)]

\* a plausible slip: the substitution of line 94 pasted into line 80
DurationPathPasted(p) == Replace(p, INTERMEDIATE, EXEC_RESULT)

\* hooks.py:80-82
DurationPath(p) == Replace(p, INTERMEDIATE, EXEC_DURATIONS)
\* hooks.py:94-96
ResultPath(p) == Replace(p, INTERMEDIATE, EXEC_RESULT)

NoSnapshot == [names |-> {}, files |-> <<>>, dirs |-> {}, taken |-> FALSE]
NoCrash == [pc |-> "none", i |-> 0]
Raised == {"DataSetAlreadyExistsError", "OSError"}

Snapshot(cat, fs, ds) ==
    [names |-> DOMAIN cat, files |-> fs, dirs |-> ds, taken |-> TRUE]

\* the save version of the k-th session: kedro takes the time the session
\* starts, so no two sessions share one
SessionVersion(k) == <<"session", k>>

\* kedro creates a catalog from the configuration and calls the hook on it
CreateCatalog ==
    /\ pc \in {"idle", "done", "crashed"} \cup Raised
    /\ runs < MaxRuns
    /\ catalog' = ConfiguredCatalog(SessionVersion(runs + 1))
    /\ runs' = runs + 1
    /\ pc' = "glob"
    /\ todo' = {}
    /\ partition' = <<>>
    /\ execution_duration' = <<>>
    /\ execution_result' = <<>>
    /\ names' = <<>>
    /\ version' = NoVersion
    /\ i' = 0
    /\ UNCHANGED <<matrix, fsVars, completed, snapshot, crashed_at,
                   cleanVars, vizVars>>

\* hooks.py:61
GlobPartitions ==
    /\ pc = "glob"
    /\ todo' = Glob(INTERMEDIATE_DIR, EXT_CSV)
    /\ pc' = "partitions"
    /\ UNCHANGED <<matrix, fsVars, catalog, partition, execution_duration,
                   execution_result, names, version, i, runs, completed,
                   snapshot, crashed_at, cleanVars, vizVars>>

\* hooks.py:63-101, one iteration of the loop over the partitions (glob
\* returns them in the order of the directory listing, which is arbitrary)
RegisterPartition ==
    /\ pc = "partitions"
    /\ \E p \in todo :
         LET dur == DurationPath(p)
             res == ResultPath(p)
             a1  == CatalogAdd(catalog, PARTITION_PREFIX \o Stem(p),
                               CSVDataSet(p))
             a2  == CatalogAdd(a1.cat, DURATION_PREFIX \o Stem(dur),
                               CSVDataSet(dur))
             a3  == CatalogAdd(a2.cat, RESULT_PREFIX \o Stem(res),
                               CSVDataSet(res))
         IN  /\ partition' = p
             /\ todo' = todo \ {p}
             /\ execution_duration' = IF a1.ok THEN dur ELSE execution_duration
             /\ execution_result' =
                    IF a1.ok /\ a2.ok THEN res ELSE execution_result
             /\ catalog' = IF ~a1.ok THEN a1.cat
                           ELSE IF ~a2.ok THEN a2.cat ELSE a3.cat
             /\ pc' = IF a1.ok /\ a2.ok /\ a3.ok
                      THEN "partitions" ELSE "DataSetAlreadyExistsError"
    /\ UNCHANGED <<matrix, fsVars, names, version, i, runs, completed,
                   snapshot, crashed_at, cleanVars, vizVars>>

\* hooks.py:108-133: load the matrix, generate the names, read the version
LoadAndGenerate ==
    /\ pc = "partitions"
    /\ todo = {}
    /\ names' = GenerateNames(matrix)
    /\ version' = [load |-> None, save |-> catalog[DUMMY_VERSIONED].version.save]
    /\ i' = 1
    /\ IF names' = <<>>
       THEN /\ pc' = "done"
            /\ completed' = completed + 1
            /\ snapshot' = Snapshot(catalog, files, dirs)
       ELSE /\ pc' = "register"
            /\ UNCHANGED <<completed, snapshot>>
    /\ UNCHANGED <<matrix, fsVars, catalog, todo, partition,
                   execution_duration, execution_result, runs, crashed_at,
                   cleanVars, vizVars>>

ReportPath(name) == REPORTING_DIR \o name \o EXT_JSON
MarkerPath(name) == REPORTING_DIR \o name \o EXT_TMP

\* a plausible slip: os.mkdir without the except FileExistsError
MkdirUnguarded(filepath, ds, fs) ==
    IF filepath \in ds \/ filepath \in DOMAIN fs
    THEN [ok |-> FALSE, dirs |-> ds]
    ELSE [ok |-> TRUE, dirs |-> ds \cup {filepath}]

\* hooks.py:143-147: os.mkdir, an existing entry of that name is passed over
Mkdir(filepath, ds, fs) ==
    IF filepath \in ds \/ filepath \in DOMAIN fs
    THEN [ok |-> TRUE, dirs |-> ds]
    ELSE [ok |-> TRUE, dirs |-> ds \cup {filepath}]

\* hooks.py:136-147: register the data set of names[i], make its directory
RegisterName ==
    /\ pc = "register"
    /\ LET name     == names[i]
           filepath == ReportPath(name)
           a        == CatalogAdd(catalog, name,
                           JSONDataSet(filepath, version))
           m        == Mkdir(filepath, dirs, files)
       IN  /\ catalog' = a.cat
           /\ IF ~a.ok
              THEN pc' = "DataSetAlreadyExistsError" /\ dirs' = dirs
              ELSE IF ~m.ok
                   THEN pc' = "OSError" /\ dirs' = dirs
                   ELSE pc' = "marker" /\ dirs' = m.dirs
    /\ UNCHANGED <<matrix, files, todo, partition, execution_duration,
                   execution_result, names, version, i, runs, completed,
                   snapshot, crashed_at, cleanVars, vizVars>>

\* a plausible slip: the marker opened for exclusive creation ("x")
OpenWriteExclusive(path, ds, fs) ==
    IF path \in ds \/ path \in DOMAIN fs
    THEN [ok |-> FALSE, files |-> fs]
    ELSE [ok |-> TRUE, files |-> fs @@ (path :> "")]

\* hooks.py:150-151: open(path, "w") and write "": the file is created or
\* truncated; a directory of that name raises IsADirectoryError
OpenWrite(path, ds, fs) ==
    IF path \in ds
    THEN [ok |-> FALSE, files |-> fs]
    ELSE [ok |-> TRUE,
          files |-> [q \in (DOMAIN fs) \cup {path} |->
                        IF q = path THEN "" ELSE fs[q]]]

\* hooks.py:149-151, then the loop of line 136 moves on or the hook returns
WriteMarker ==
    /\ pc = "marker"
    /\ LET w == OpenWrite(MarkerPath(names[i]), dirs, files)
       IN  /\ files' = w.files
           /\ IF ~w.ok
              THEN /\ pc' = "OSError"
                   /\ UNCHANGED <<i, completed, snapshot>>
              ELSE IF i < Len(names)
                   THEN /\ pc' = "register"
                        /\ i' = i + 1
                        /\ UNCHANGED <<completed, snapshot>>
                   ELSE /\ pc' = "done"
                        /\ i' = i
                        /\ completed' = completed + 1
                        /\ snapshot' = Snapshot(catalog, w.files, dirs)
    /\ UNCHANGED <<matrix, dirs, catalog, todo, partition, execution_duration,
                   execution_result, names, version, runs, crashed_at,
                   cleanVars, vizVars>>

\* the process is killed while the hook runs
Crash ==
    /\ pc \in {"glob", "partitions", "register", "marker"}
    /\ crashed_at' = [pc |-> pc, i |-> i]
    /\ pc' = "crashed"
    /\ UNCHANGED <<matrix, fsVars, catalog, todo, partition,
                   execution_duration, execution_result, names, version, i,
                   runs, completed, snapshot, cleanVars, vizVars>>

(***************************************************************************)
(* Initial states and specifications of the hook.                          *)
(***************************************************************************)
Matrices(n) ==
    [frameworks : SeqsUpTo(FrameworkVals, n), qubits : SeqsUpTo(QubitVals, n),
     depths : SeqsUpTo(DepthVals, n), shots : SeqsUpTo(ShotVals, n)]

\* the matrix of the scenario of the specification
ScenarioMatrix ==
    [frameworks |-> <<S_qiskit>>, qubits |-> <<2, 4>>, depths |-> <<10>>,
     shots |-> <<100>>]

\* the matrices of the registration runs: every axis may be empty or list a
\* value twice
RegMatrices ==
    [frameworks : SeqsUpTo({S_qiskit}, RegAxisLen),
     qubits : SeqsUpTo(QubitVals, RegAxisLen),
     depths : {<<10>>}, shots : {<<100>>}]

PartitionPath(stem) == INTERMEDIATE_DIR \o stem \o EXT_CSV

StemPieces == {<<"0">>, <<".">>, <<"0","2","_">>, INTERMEDIATE, EXEC_DURATIONS,
               <<"0","5","_","e","x","e","c","u","t","i","o","n","_">>,
               <<"d","u","r","a","t","i","o","n","s">>}

\* file stems a partition can have: glob's *.csv matches no hidden file
Stems(n) ==
    {st \in {Flatten(ps) : ps \in SeqsUpTo(StemPieces, n)} :
        st # <<>> /\ st[1] # "."}

\* the file stems of the partitions of the registration runs
RegStems == {<<"0">>, <<"1">>, INTERMEDIATE}

CsvFiles(paths) == [path \in paths |-> CSV_CONTENT]

HookIdle ==
    /\ catalog = <<>>
    /\ pc = "idle"
    /\ todo = {}
    /\ partition = <<>>
    /\ execution_duration = <<>>
    /\ execution_result = <<>>
    /\ names = <<>>
    /\ version = NoVersion
    /\ i = 0
    /\ runs = 0
    /\ completed = 0
    /\ snapshot = NoSnapshot
    /\ crashed_at = NoCrash

CleanIdle ==
    /\ pipeline_name = "__default__"
    /\ cpc = "idle"
    /\ pattern = 0
    /\ tempFiles = {}
    /\ meddled = 0

VizIdle ==
    /\ table = {}
    /\ figures = <<>>
    /\ vpc = "idle"

\* the generation of the names over every matrix, no partition on disk
InitNames ==
    /\ matrix \in Matrices(MaxAxisLen)
    /\ files = <<>>
    /\ dirs = {}
    /\ HookIdle /\ CleanIdle /\ VizIdle

NextNames == CreateCatalog \/ GlobPartitions \/ LoadAndGenerate

SpecNames == InitNames /\ [][NextNames]_vars

\* the derivation of the sibling paths of one partition
InitPath ==
    /\ matrix = ScenarioMatrix
    /\ \E st \in Stems(MaxStemParts) : files = CsvFiles({PartitionPath(st)})
    /\ dirs = {}
    /\ HookIdle /\ CleanIdle /\ VizIdle

NextPath == CreateCatalog \/ GlobPartitions \/ RegisterPartition

SpecPath == InitPath /\ [][NextPath]_vars

\* registration runs, interrupted or not, one after the other
InitReg ==
    /\ matrix \in RegMatrices
    /\ \E sts \in SUBSET RegStems :
         /\ Cardinality(sts) <= MaxPartitions
         /\ files = CsvFiles({PartitionPath(st) : st \in sts})
    /\ dirs = {}
    /\ HookIdle /\ CleanIdle /\ VizIdle

NextReg ==
    \/ CreateCatalog
    \/ GlobPartitions
    \/ RegisterPartition
    \/ LoadAndGenerate
    \/ RegisterName
    \/ WriteMarker
    \/ Crash

SpecReg == InitReg /\ [][NextReg]_vars

(***************************************************************************)
(* Claims about the hook.                                                  *)
(***************************************************************************)
ScenarioNames ==
    {<<"f","r","a","m","e","w","o","r","k","_","q","i","s","k","i","t","_","q","u","b","i","t","s","_","2">>,
     <<"f","r","a","m","e","w","o","r","k","_","q","i","s","k","i","t","_","q","u","b","i","t","s","_","4">>,
     <<"f","r","a","m","e","w","o","r","k","_","q","i","s","k","i","t","_","d","e","p","t","h","_","1","0">>,
     <<"s","h","o","t","s","_","1","0","0","_","d","e","p","t","h","_","1","0">>,
     <<"q","u","b","i","t","s","_","2","_","d","e","p","t","h","_","1","0">>,
     <<"q","u","b","i","t","s","_","4","_","d","e","p","t","h","_","1","0">>,
     <<"s","h","o","t","s","_","1","0","0","_","q","u","b","i","t","s","_","2">>,
     <<"s","h","o","t","s","_","1","0","0","_","q","u","b","i","t","s","_","4">>}

\* the five families of names, written out from the matrix as sets
NameFamilies(m) ==
    {<<"f","r","a","m","e","w","o","r","k","_">> \o f \o <<"_","q","u","b","i","t","s","_">> \o Str(q) :
        f \in Range(m.frameworks), q \in Range(m.qubits)}
    \cup {<<"f","r","a","m","e","w","o","r","k","_">> \o f \o <<"_","d","e","p","t","h","_">> \o Str(d) :
        f \in Range(m.frameworks), d \in Range(m.depths)}
    \cup {<<"s","h","o","t","s","_">> \o Str(s) \o <<"_","d","e","p","t","h","_">> \o Str(d) :
        d \in Range(m.depths), s \in Range(m.shots)}
    \cup {<<"q","u","b","i","t","s","_">> \o Str(q) \o <<"_","d","e","p","t","h","_">> \o Str(d) :
        d \in Range(m.depths), q \in Range(m.qubits)}
    \cup {<<"s","h","o","t","s","_">> \o Str(s) \o <<"_","q","u","b","i","t","s","_">> \o Str(q) :
        s \in Range(m.shots), q \in Range(m.qubits)}

NamesGenerated == pc \in {"register", "marker", "done"}

\* C1: once after_catalog_created has generated its names, the set of names
\* is exactly the union of the five families framework_f_qubits_q,
\* framework_f_depth_d, shots_s_depth_d, qubits_q_depth_d, shots_s_qubits_q
\* over the matrix; for the matrix qiskit / 2,4 / 10 / 100 it is the 8 names
\* of the scenario.
C1_NamesAreTheFiveFamilies ==
    NamesGenerated =>
        /\ Range(names) = NameFamilies(matrix)
        /\ matrix = ScenarioMatrix =>
              /\ Range(names) = ScenarioNames
              /\ Cardinality(Range(names)) = 8

C1_Witness ==
    /\ pc = "register"
    /\ matrix = ScenarioMatrix
    /\ Len(names) = 8

ReportEntries == {n \in DOMAIN catalog : catalog[n].type = "JSONDataSet"}

\* C5 as stated: a name list with a repeated name does not make the
\* registration fail; the run completes with one entry for the name.
C5_DuplicateNameReplaces ==
    (names # <<>> /\ HasDuplicate(names)) =>
        /\ pc # "DataSetAlreadyExistsError"
        /\ \A k \in 1..Len(names) :
              Cardinality({n \in DOMAIN catalog : n = names[k]}) <= 1

\* C5, amended: a name list with a repeated name makes the run raise
\* DataSetAlreadyExistsError at the second registration of that name; the
\* run never completes, the entries registered are those of the names before
\* it (the repeated name still bound, once, to its first data set), and the
\* names after it are not looked at.
C5_DuplicateNameRaises ==
    (names # <<>> /\ HasDuplicate(names)) =>
        /\ pc # "done"
        /\ pc = "DataSetAlreadyExistsError" =>
              /\ \E k \in 1..(i - 1) : names[k] = names[i]
              /\ ~HasDuplicate(SubSeq(names, 1, i - 1))
              /\ ReportEntries = {names[k] : k \in 1..(i - 1)}
              /\ catalog[names[i]] = JSONDataSet(ReportPath(names[i]), version)

C5_Witness ==
    /\ pc = "DataSetAlreadyExistsError"
    /\ names # <<>>
    /\ i < Len(names)

\* C6 as stated: two runs in a row, none interrupted, both succeed and the
\* second ends in the state the first ended in.
C6_BothRunsSucceed ==
    crashed_at = NoCrash =>
        /\ pc \notin Raised
        /\ (pc = "done" /\ completed = 2) =>
              Snapshot(catalog, files, dirs) = snapshot

\* C6, amended: once a run of after_catalog_created has returned normally, a
\* later run on a newly created catalog, with the same partitions on disk
\* and the same matrix, raises nothing and returns with the same catalog
\* names, the same files (the markers empty) and the same directories.
C6_SecondRunRepeatsFirst ==
    [][/\ snapshot.taken => pc' \notin Raised
       /\ (snapshot.taken /\ pc # "done" /\ pc' = "done") =>
             Snapshot(catalog', files', dirs') = snapshot]_vars

C6_Witness ==
    /\ pc = "done"
    /\ completed = 2
    /\ crashed_at = NoCrash
    /\ Len(names) > 1
    /\ todo = {} /\ partition # <<>>

Materialised(ns) ==
    \A k \in 1..Len(ns) :
        /\ ReportPath(ns[k]) \in dirs
        /\ MarkerPath(ns[k]) \in DOMAIN files
        /\ files[MarkerPath(ns[k])] = ""

\* C7 as stated: after an interrupted run, the next run completes without
\* an error.
C7_RerunNeverFails ==
    crashed_at # NoCrash => pc \notin Raised

\* C7, amended: after a run interrupted at any point, a later run raises no
\* file system error; the only error it can raise is the
\* DataSetAlreadyExistsError of a catalog registration (two partitions that
\* derive one data set name, or a repeated report name); and when it
\* returns, every generated name has its directory and its empty marker.
C7_RerunCompletesTheFiles ==
    crashed_at # NoCrash =>
        /\ pc # "OSError"
        /\ pc = "DataSetAlreadyExistsError" =>
              (names = <<>> \/ HasDuplicate(names))
        /\ pc = "done" => Materialised(names)

C7_Witness ==
    /\ pc = "done"
    /\ crashed_at.pc = "marker"
    /\ crashed_at.i = 2
    /\ Len(names) > 2
    /\ completed = 1

\* C8: at every point of a run, every report data set registered so far
\* carries the version read once from dummy_versioned_dataset: load None,
\* save the save version of that entry.
C8_OneVersionPerRun ==
    \A n \in ReportEntries :
        /\ catalog[n].version = version
        /\ version.load = None
        /\ version.save = catalog[DUMMY_VERSIONED].version.save

C8_Witness ==
    /\ pc = "marker"
    /\ Cardinality(ReportEntries) >= 3
    /\ runs = 2
    /\ version.save = SessionVersion(2)

RECURSIVE ContainsFrom(_, _, _)
ContainsFrom(s, a, pat) ==
    IF a + Len(pat) - 1 > Len(s) THEN FALSE
    ELSE StartsWithAt(s, a, pat) \/ ContainsFrom(s, a + 1, pat)

Contains(s, pat) == ContainsFrom(s, 1, pat)

PartitionDerived == pc = "partitions" /\ partition # <<>>

\* C9 as stated: for every partition path, the duration substitution
\* followed by the inverse substitution gives the partition path back.
C9_RoundTrip ==
    PartitionDerived =>
        Replace(execution_duration, EXEC_DURATIONS, INTERMEDIATE) = partition

\* C9, amended: for every partition path that does not itself contain the
\* substring 05_execution_durations (only its file stem can), the duration
\* substitution followed by the inverse substitution gives the path back.
C9_RoundTripWithoutDurationsInStem ==
    (PartitionDerived /\ ~Contains(Stem(partition), EXEC_DURATIONS)) =>
        Replace(execution_duration, EXEC_DURATIONS, INTERMEDIATE) = partition

C9_Witness ==
    /\ PartitionDerived
    /\ Contains(Stem(partition), INTERMEDIATE)
    /\ ~Contains(Stem(partition), EXEC_DURATIONS)
    /\ execution_duration # partition

(***************************************************************************)
(* hooks.py:18-45, ProjectHooks.before_pipeline_run.                       *)
(***************************************************************************)
PatternDir(k) ==
    CASE k = 1 -> INTERMEDIATE_DIR [] k = 2 -> RESULT_DIR
      [] k = 3 -> DURATIONS_DIR [] k = 4 -> REPORTING_DIR

PatternExt(k) == IF k = 4 THEN EXT_TMP ELSE EXT_CSV

LastPattern == 4

\* hooks.py:30
BeforePipelineRun ==
    /\ cpc = "start"
    /\ IF pipeline_name = "pre"
       THEN cpc' = "scan" /\ pattern' = 1
       ELSE cpc' = "done" /\ pattern' = pattern
    /\ UNCHANGED <<matrix, fsVars, hookVars, pipeline_name, tempFiles,
                   meddled, vizVars>>

\* hooks.py:31, 35, 39, 43
ScanPattern ==
    /\ cpc = "scan"
    /\ tempFiles' = Glob(PatternDir(pattern), PatternExt(pattern))
    /\ cpc' = "remove"
    /\ UNCHANGED <<matrix, fsVars, hookVars, pipeline_name, pattern, meddled,
                   vizVars>>

\* hooks.py:32-33, 36-37, 40-41, 44-45: os.remove of the next file of the
\* list; a file that is no longer there raises FileNotFoundError, which
\* nothing catches
RemoveFile ==
    /\ cpc = "remove"
    /\ \E f \in tempFiles :
         /\ tempFiles' = tempFiles \ {f}
         /\ IF f \in DOMAIN files
            THEN files' = Without(files, f) /\ cpc' = cpc
            ELSE files' = files /\ cpc' = "FileNotFoundError"
    /\ UNCHANGED <<matrix, dirs, hookVars, pipeline_name, pattern, meddled,
                   vizVars>>

\* the end of one for loop: on to the next scan, or the hook returns
EndOfLoop ==
    /\ cpc = "remove"
    /\ tempFiles = {}
    /\ IF pattern < LastPattern
       THEN cpc' = "scan" /\ pattern' = pattern + 1
       ELSE cpc' = "done" /\ pattern' = pattern
    /\ UNCHANGED <<matrix, fsVars, hookVars, pipeline_name, tempFiles,
                   meddled, vizVars>>

\* another process removes a file while the cleanup runs
OtherProcessRemoves ==
    /\ cpc \in {"scan", "remove"}
    /\ meddled < MaxMeddle
    /\ \E f \in DOMAIN files : files' = Without(files, f)
    /\ meddled' = meddled + 1
    /\ UNCHANGED <<matrix, dirs, hookVars, pipeline_name, cpc, pattern,
                   tempFiles, vizVars>>

CleanupFiles ==
    (PartitionPath(<<"0">>) :> CSV_CONTENT)
    @@ (PartitionPath(<<"1">>) :> CSV_CONTENT)
    @@ ((RESULT_DIR \o <<"0">> \o EXT_CSV) :> CSV_CONTENT)
    @@ ((DURATIONS_DIR \o <<"0">> \o EXT_CSV) :> CSV_CONTENT)
    @@ (MarkerPath(ShotsDepthName(100, 10)) :> "")
    @@ (MarkerPath(QubitsDepthName(2, 10)) :> "")
    @@ ((REPORTING_DIR \o <<".","g","i","t","k","e","e","p">>) :> "")

InitClean ==
    /\ matrix = ScenarioMatrix
    /\ \E paths \in SUBSET DOMAIN CleanupFiles :
         files = [path \in paths |-> CleanupFiles[path]]
    /\ dirs = {}
    /\ pipeline_name \in {"pre", "__default__"}
    /\ cpc = "start"
    /\ pattern = 0
    /\ tempFiles = {}
    /\ meddled = 0
    /\ HookIdle /\ VizIdle

NextClean ==
    \/ BeforePipelineRun
    \/ ScanPattern
    \/ RemoveFile
    \/ EndOfLoop
    \/ OtherProcessRemoves

SpecClean == InitClean /\ [][NextClean]_vars

\* C10: when another process has removed a file between a scan and its
\* deletion, the cleanup of the "pre" pipeline raises nothing and, when it
\* returns, no file matched by one of the four patterns is left.
C10_CleanupIsBestEffort ==
    (pipeline_name = "pre" /\ meddled > 0) =>
        /\ cpc # "FileNotFoundError"
        /\ cpc = "done" =>
              \A k \in 1..LastPattern : Glob(PatternDir(k), PatternExt(k)) = {}

(***************************************************************************)
(* nodes.py:12-60, shots_depths_viz.  A row of the frame is the tuple of   *)
(* its columns "0" .. "4": framework, qubits, depth, shots, duration.      *)
(* The frame is modelled as the set of its rows.  sort_values uses the     *)
(* default quicksort, which is not stable, so the order of rows with equal *)
(* keys is any order.                                                      *)
(***************************************************************************)
Col(row, c) == row[c + 1]

Measurements == {<<100, 5>>, <<100, 9>>, <<200, 9>>}

RowUniverse ==
    {<<fw, q, d, sd[1], sd[2]>> :
        fw \in FrameworkVals, q \in QubitVals, d \in DepthVals,
        sd \in Measurements}

RECURSIVE SubsetsUpTo(_, _)
SubsetsUpTo(S, n) ==
    IF n = 0 THEN {{}}
    ELSE LET smaller == SubsetsUpTo(S, n - 1)
         IN  smaller \cup {t \cup {r} : t \in smaller, r \in S}

\* frame.groupby(c): the keys, and the rows of one key
GroupKeys(rows, c) == {Col(r, c) : r \in rows}
Group(rows, c, key) == {r \in rows : Col(r, c) = key}

AllOrders(rows) ==
    {sq \in [1..Cardinality(rows) -> rows] :
        \A a, b \in 1..Cardinality(rows) : a # b => sq[a] # sq[b]}

\* a plausible slip: the rows are not sorted at all
Unsorted(rows, c) == AllOrders(rows)

\* frame.sort_values(c): the rows in ascending order of column c
SortValues(rows, c) ==
    {sq \in AllOrders(rows) :
        \A k \in 1..(Len(sq) - 1) : Col(sq[k], c) <= Col(sq[k + 1], c)}

Column(sq, c) == [k \in 1..Len(sq) |-> Col(sq[k], c)]

\* go.Heatmap(x=..., y=..., z=...)
Heatmap(x, y, z) == [x |-> x, y |-> y, z |-> z]

QubitsKey(fw, q) == fw \o S__qubits_ \o Str(q)

\* a plausible slip: the key of line 28 pasted into line 49
DepthKeyPasted(fw, d) == fw \o S__qubits_ \o Str(d)

DepthKey(fw, d) == fw \o S__depth_ \o Str(d)

\* nodes.py:20-37: the figures the frame of one framework and one qubit
\* count can give
QubitFigures(rows) ==
    {Heatmap(Column(sq, 3), Column(sq, 2), Column(sq, 4)) :
        sq \in SortValues(rows, 2)}

\* nodes.py:41-58: the figures the frame of one framework and one depth can
\* give
DepthFigures(rows) ==
    {Heatmap(Column(sq, 3), Column(sq, 1), Column(sq, 4)) :
        sq \in SortValues(rows, 1)}

\* every assignment figures[key] = ... the two loops make
Assignments(rows) ==
    UNION {
        LET qubit_depth_duration == Group(rows, 0, fw)
        IN  {[key |-> QubitsKey(fw, q),
              figs |-> QubitFigures(Group(qubit_depth_duration, 1, q))] :
                q \in GroupKeys(qubit_depth_duration, 1)}
            \cup
            {[key |-> DepthKey(fw, d),
              figs |-> DepthFigures(Group(qubit_depth_duration, 2, d))] :
                d \in GroupKeys(qubit_depth_duration, 2)}
        : fw \in GroupKeys(rows, 0)}

RECURSIVE Dicts(_, _)
\* the dicts over keys in which every key holds a figure assigned to it
Dicts(keys, as) ==
    IF keys = {} THEN {<<>>}
    ELSE LET key == CHOOSE k \in keys : TRUE
         IN  {dict @@ (key :> fig) :
                 dict \in Dicts(keys \ {key}, as),
                 fig \in UNION {a.figs : a \in {b \in as : b.key = key}}}

\* nodes.py:12-60
ShotsDepthsViz ==
    /\ vpc = "start"
    /\ LET as == Assignments(table)
       IN  figures' \in Dicts({a.key : a \in as}, as)
    /\ vpc' = "returned"
    /\ UNCHANGED <<matrix, fsVars, hookVars, cleanVars, table>>

FullMatrix ==
    [frameworks |-> <<S_qiskit, S_cirq>>, qubits |-> <<2, 4>>,
     depths |-> <<10, 20>>, shots |-> <<100, 200>>]

InitViz ==
    /\ matrix \in {ScenarioMatrix, FullMatrix}
    /\ table \in SubsetsUpTo(RowUniverse, MaxRows)
    /\ figures = <<>>
    /\ vpc = "start"
    /\ files = <<>>
    /\ dirs = {}
    /\ HookIdle /\ CleanIdle

NextViz == ShotsDepthsViz

SpecViz == InitViz /\ [][NextViz]_vars

(***************************************************************************)
(* Claims about shots_depths_viz.                                          *)
(***************************************************************************)
ScenarioTable == {<<S_qiskit, 2, 10, 100, 5>>, <<S_qiskit, 4, 10, 100, 9>>}

FrameworkQubitPairs == {<<r[1], r[2]>> : r \in table}
FrameworkDepthPairs == {<<r[1], r[3]>> : r \in table}

RowsOfQubits(p) == {r \in table : r[1] = p[1] /\ r[2] = p[2]}
RowsOfDepth(p) == {r \in table : r[1] = p[1] /\ r[3] = p[2]}

KeyOfQubits(p) == p[1] \o <<"_","q","u","b","i","t","s","_">> \o Str(p[2])
KeyOfDepth(p) == p[1] \o <<"_","d","e","p","t","h","_">> \o Str(p[2])

Ascending(sq) == \A k \in 1..(Len(sq) - 1) : sq[k] <= sq[k + 1]

Constant(sq, v) == \A k \in 1..Len(sq) : sq[k] = v

Points(h) == {<<h.x[k], h.y[k], h.z[k]>> : k \in 1..Len(h.x)}

SameLengths(h, n) == Len(h.x) = n /\ Len(h.y) = n /\ Len(h.z) = n

\* C2 as stated: the figure of a framework and a qubit count has the depths
\* on x in ascending order, the qubit count on y and the durations on z; the
\* figure of a framework and a depth has the qubit counts on x in ascending
\* order, the depth on y and the durations on z.
C2_AxesAsStated ==
    vpc = "returned" =>
        /\ \A p \in FrameworkQubitPairs :
              LET h == figures[KeyOfQubits(p)]
              IN  /\ SameLengths(h, Cardinality(RowsOfQubits(p)))
                  /\ Ascending(h.x)
                  /\ Constant(h.y, p[2])
                  /\ {<<h.x[k], h.z[k]>> : k \in 1..Len(h.x)}
                        = {<<r[3], r[5]>> : r \in RowsOfQubits(p)}
        /\ \A p \in FrameworkDepthPairs :
              LET h == figures[KeyOfDepth(p)]
              IN  /\ SameLengths(h, Cardinality(RowsOfDepth(p)))
                  /\ Ascending(h.x)
                  /\ Constant(h.y, p[2])
                  /\ {<<h.x[k], h.z[k]>> : k \in 1..Len(h.x)}
                        = {<<r[2], r[5]>> : r \in RowsOfDepth(p)}

\* C2, amended: the figure of a framework and a qubit count has one point
\* per row of its group, the rows in ascending order of depth, with the shot
\* count of the row on x, its depth on y and its duration on z; the figure
\* of a framework and a depth has one point per row, the rows in ascending
\* order of qubit count, with the shot count on x, the qubit count on y and
\* the duration on z (so the rows (qiskit,2,10,100,0.5),(qiskit,4,10,100,0.9)
\* give qiskit_depth_10 with x=[100,100], y=[2,4], z=[0.5,0.9]).
C2_AxesOfTheCode ==
    vpc = "returned" =>
        /\ \A p \in FrameworkQubitPairs :
              LET h == figures[KeyOfQubits(p)]
              IN  /\ SameLengths(h, Cardinality(RowsOfQubits(p)))
                  /\ Ascending(h.y)
                  /\ Points(h) = {<<r[4], r[3], r[5]>> : r \in RowsOfQubits(p)}
        /\ \A p \in FrameworkDepthPairs :
              LET h == figures[KeyOfDepth(p)]
              IN  /\ SameLengths(h, Cardinality(RowsOfDepth(p)))
                  /\ Ascending(h.y)
                  /\ Points(h) = {<<r[4], r[2], r[5]>> : r \in RowsOfDepth(p)}
        /\ table = ScenarioTable =>
              figures[<<"q","i","s","k","i","t","_","d","e","p","t","h","_","1","0">>]
                 = [x |-> <<100, 100>>, y |-> <<2, 4>>, z |-> <<5, 9>>]

C2_Witness ==
    /\ vpc = "returned"
    /\ table = ScenarioTable

\* C3: the dict returned has exactly one entry per (framework, qubit count)
\* pair of the table, keyed {framework}_qubits_{q}, and one per (framework,
\* depth) pair, keyed {framework}_depth_{d}, and no other (8 entries when
\* two frameworks each occur with two qubit counts and two depths); x, y and
\* z of an entry are as long as its group has rows.
C3_OneEntryPerPair ==
    vpc = "returned" =>
        /\ DOMAIN figures = {KeyOfQubits(p) : p \in FrameworkQubitPairs}
                            \cup {KeyOfDepth(p) : p \in FrameworkDepthPairs}
        /\ Cardinality(DOMAIN figures) =
              Cardinality(FrameworkQubitPairs) + Cardinality(FrameworkDepthPairs)
        /\ \A p \in FrameworkQubitPairs :
              SameLengths(figures[KeyOfQubits(p)], Cardinality(RowsOfQubits(p)))
        /\ \A p \in FrameworkDepthPairs :
              SameLengths(figures[KeyOfDepth(p)], Cardinality(RowsOfDepth(p)))
        /\ (FrameworkQubitPairs = FrameworkVals \X QubitVals
            /\ FrameworkDepthPairs = FrameworkVals \X DepthVals) =>
              Cardinality(DOMAIN figures) = 8

C3_Witness ==
    /\ vpc = "returned"
    /\ FrameworkQubitPairs = FrameworkVals \X QubitVals
    /\ FrameworkDepthPairs = FrameworkVals \X DepthVals
    /\ Cardinality(DOMAIN figures) = 8

TableFromMatrix ==
    \A r \in table :
        /\ r[1] \in Range(matrix.frameworks)
        /\ r[2] \in Range(matrix.qubits)
        /\ r[3] \in Range(matrix.depths)

\* C4: for a table whose frameworks, qubit counts and depths come from the
\* matrix, every key of the dict shots_depths_viz returns is one of the
\* report names after_catalog_created generates for that matrix.
C4_KeysAreReportNames ==
    (vpc = "returned" /\ TableFromMatrix) =>
        DOMAIN figures \subseteq Range(GenerateNames(matrix))

====
